---- MODULE Spec2Model ----
(***************************************************************************)
(* Model of package assert (oxisto/assert), in its two builds:             *)
(*   "proto": src/assert.go        (== plus proto.Equal for messages)      *)
(*   "cmp"  : src/unnamed/part_000 (cmp.Equal with options)                *)
(* A test run executes test bodies one after the other; every statement of *)
(* a body is one top-level assertion call on the *testing.T of that test.  *)
(***************************************************************************)
EXTENDS Integers, Sequences, FiniteSets, TLC

VARIABLES variant, cur, stmt, pc, status, records, proc, last

vars == <<variant, cur, stmt, pc, status, records, proc, last>>

\* Number of sibling tests of the run, statements per test body, and the
\* deepest chain of wrapped errors.
NumTests == 2
MaxStmts == 2
MaxWrap == 2

Variants == {"proto", "cmp"}

-----------------------------------------------------------------------------
(* Go values, by dynamic type.                                             *)

\* the nil interface value (no dynamic type)
NilIface == [k |-> "nil"]

Ints == {[k |-> "int", v |-> n] : n \in {1, 2}}

\* float64; NaN is the value that == does not relate to itself
Floats == {[k |-> "float", v |-> f] : f \in {"NaN", "1.5"}}

\* SomeStruct of the test file, behind the three heap addresses of the model:
\* 1 and 2 hold equal contents, 3 holds other contents
SomeStruct(a) ==
    IF a = 3 THEN [A |-> 2, B |-> "bar"] ELSE [A |-> 1, B |-> "foo"]

\* *SomeStruct; addr 0 is the typed nil pointer
Ptrs == {[k |-> "ptr", addr |-> a] : a \in 0..3}

\* a slice: a dynamic type that is not comparable
Slices == {[k |-> "slice", v |-> s] : s \in {<<1>>, <<2>>}}

\* a struct value with an exported and an unexported field
Privs == {[k |-> "priv", pub |-> 1, hid |-> h] : h \in {1, 2}}

\* a generated protobuf message (pointer): content is what it means,
\* cache its unexported bookkeeping (sizeCache); addr 0 is the typed nil
Msgs ==
    { [k |-> "msg", addr |-> 0, content |-> "", cache |-> 0],
      [k |-> "msg", addr |-> 1, content |-> "x", cache |-> 0],
      [k |-> "msg", addr |-> 2, content |-> "x", cache |-> 1],
      [k |-> "msg", addr |-> 3, content |-> "y", cache |-> 0] }

Vals == {NilIface} \cup Ints \cup Floats \cup Ptrs \cup Slices \cup Privs \cup Msgs

\* (expected, actual) of one static type T: a concrete type, both values of
\* it, or an interface type (any, proto.Message), the dynamic types free
Pairs == Vals \X Vals

\* the *any values NotNil builds: the nil *any and the address of its parameter
NilPtrAny == [k |-> "pany", addr |-> 0]
AddrOf(value) == [k |-> "pany", addr |-> 1, elem |-> value]

\* cmp.Option lists of the cmp build: none, cmp.AllowUnexported and
\* cmpopts.IgnoreUnexported for the struct types of the model
NoOpts == "none"
Options(v) == IF v = "cmp" THEN {"none", "AllowUnexported", "IgnoreUnexported"}
              ELSE {"none"}

-----------------------------------------------------------------------------
(* Errors: 0 is the nil error; 1 and 2 are two errors.New("boom") values;  *)
(* 3 is fmt.Errorf("%w", 1) and every later id wraps the id before it.     *)

ErrIds == 0..(2 + MaxWrap)

ErrMsg(id) == IF id \in {1, 2} THEN "boom" ELSE "wrapped"

Unwrap(id) == IF id = 3 THEN 1 ELSE IF id > 3 THEN id - 1 ELSE 0

ErrVal(id) == IF id = 0 THEN NilIface ELSE [k |-> "err", id |-> id]

\* errors.Is replaced by a comparison of the two errors, no chain walk
errorsIsDirect(err, target) == err = target

\* errors.Is(err, target): walks the chain of err comparing with ==
RECURSIVE errorsIs(_, _)
errorsIs(err, target) ==
    IF err = 0 \/ target = 0 THEN err = target
    ELSE IF err = target THEN TRUE
    ELSE IF Unwrap(err) = 0 THEN FALSE
    ELSE errorsIs(Unwrap(err), target)

-----------------------------------------------------------------------------
(* Equality notions. A verdict is "eq", "ne" or "panic".                   *)

Verdict(b) == IF b THEN "eq" ELSE "ne"

\* the Go operator == on two values of one static type (interface values
\* when the dynamic types may differ)
GoEq(x, y) ==
    IF x.k # y.k THEN "ne"
    ELSE CASE x.k = "nil" -> "eq"
           [] x.k = "int" -> Verdict(x.v = y.v)
           [] x.k = "float" -> Verdict(x.v # "NaN" /\ x.v = y.v)
           [] x.k = "ptr" -> Verdict(x.addr = y.addr)
           [] x.k = "slice" -> "panic"
           [] x.k = "priv" -> Verdict(x.pub = y.pub /\ x.hid = y.hid)
           [] x.k = "msg" -> Verdict(x.addr = y.addr)
           [] x.k = "pany" -> Verdict(x.addr = y.addr)
           [] x.k = "err" -> Verdict(x.id = y.id)

\* value.(proto.Message) succeeds
IsMsg(x) == x.k = "msg"

\* proto.Equal on two messages
ProtoEqual(x, y) ==
    IF x.addr = y.addr THEN "eq"
    ELSE IF (x.addr = 0) # (y.addr = 0) THEN "ne"
    ELSE Verdict(x.content = y.content)

\* cmp.Equal on two structs of one type with exported and unexported fields:
\* without an option for the unexported fields it panics
CmpStruct(opts, exportedEq, unexportedEq) ==
    IF opts = "AllowUnexported" THEN Verdict(exportedEq /\ unexportedEq)
    ELSE IF opts = "IgnoreUnexported" THEN Verdict(exportedEq)
    ELSE "panic"

\* cmp.Equal(x, y, opts...) on values whose dynamic types agree
CmpSame(x, y, opts) ==
    CASE x.k = "nil" -> "eq"
      [] x.k = "int" -> Verdict(x.v = y.v)
      [] x.k = "float" -> Verdict(x.v # "NaN" /\ x.v = y.v)
      [] x.k = "ptr" ->
            IF x.addr = 0 \/ y.addr = 0 THEN Verdict(x.addr = 0 /\ y.addr = 0)
            ELSE Verdict(SomeStruct(x.addr) = SomeStruct(y.addr))
      [] x.k = "slice" -> Verdict(x.v = y.v)
      [] x.k = "priv" ->
            CmpStruct(opts, x.pub = y.pub, x.hid = y.hid)
      [] x.k = "msg" ->
            IF x.addr = 0 \/ y.addr = 0 THEN Verdict(x.addr = 0 /\ y.addr = 0)
            ELSE CmpStruct(opts, x.content = y.content, x.cache = y.cache)
      [] x.k = "err" -> CmpStruct(opts, TRUE, x.id = y.id)

\* cmp.Equal(x, y, opts...)
CmpEqual(x, y, opts) ==
    IF x.k # y.k THEN "ne"
    ELSE IF x.k = "pany"
         THEN IF x.addr = 0 \/ y.addr = 0 THEN Verdict(x.addr = 0 /\ y.addr = 0)
              ELSE IF x.elem.k # y.elem.k THEN "ne"
              ELSE CmpSame(x.elem, y.elem, opts)
         ELSE CmpSame(x, y, opts)

\* the closure Equals hands to EqualsFunc in the proto build
ProtoClosure(expected, actual) ==
    IF IsMsg(expected)
    THEN IF IsMsg(actual) THEN ProtoEqual(expected, actual) ELSE "panic"
    ELSE GoEq(expected, actual)

\* the equality that governs Equals and NotEquals in build v
Governing(v, expected, actual, opts) ==
    IF v = "proto" THEN ProtoClosure(expected, actual)
    ELSE CmpEqual(expected, actual, opts)

-----------------------------------------------------------------------------
(* The assertions. The result of a call: how it ended (out: "returned",    *)
(* "halted" by Fatalf, or "panic"), the value returned, and the number of  *)
(* t.Errorf and t.Fatalf calls it made.                                    *)

Returned(ret, nerr) == [out |-> "returned", ret |-> ret, errorf |-> nerr, fatalf |-> 0]
Panicked == [out |-> "panic", ret |-> "none", errorf |-> 0, fatalf |-> 0]
Halted(nerr) == [out |-> "halted", ret |-> "none", errorf |-> nerr, fatalf |-> 1]

\* the equality predicates a caller hands to EqualsFunc
Predicates == {"always", "never", "same"}
ApplyPred(p, expected, actual) ==
    CASE p = "always" -> "eq"
      [] p = "never" -> "ne"
      [] p = "same" -> Verdict(expected = actual)

\* EqualsFunc, given the verdict of equals(expected, actual)
EqualsFunc(verdict) ==
    IF verdict = "panic" THEN Panicked
    ELSE IF verdict = "eq" THEN Returned(TRUE, 0)
    ELSE Returned(FALSE, 1)

Equals(v, expected, actual, opts) ==
    EqualsFunc(Governing(v, expected, actual, opts))

NotEquals(v, expected, actual, opts) ==
    LET verdict == Governing(v, expected, actual, opts)
    IN  IF verdict = "panic" THEN Panicked
        ELSE IF verdict = "ne" THEN Returned(TRUE, 0)
        ELSE Returned(FALSE, 1)

\* the types Is is instantiated with; "any" and "Message" are interfaces
Types == {"int", "float", "ptr", "slice", "priv", "msg", "any", "Message"}

\* value.(T)
TypeAssert(value, T) ==
    /\ value.k # "nil"
    /\ \/ T = "any"
       \/ T = "Message" /\ value.k = "msg"
       \/ T = value.k

\* Is with t.Errorf in place of t.Fatalf: it goes on and returns the zero T
IsSoft(T, value) ==
    IF TypeAssert(value, T) THEN Returned(value, 0)
    ELSE Returned([k |-> "zero"], 1)

Is(T, value) ==
    IF TypeAssert(value, T) THEN Returned(value, 0) ELSE Halted(0)

NoError(v, err) == Equals(v, NilIface, ErrVal(err), NoOpts)

\* NotNil comparing the value itself, not its address, with nil
NotNilDirect(v, value) ==
    LET r == NotEquals(v, NilIface, value, NoOpts)
    IN  IF r.out = "returned" /\ ~r.ret THEN Halted(r.errorf) ELSE r

NotNil(v, value) ==
    LET r == NotEquals(v, NilPtrAny, AddrOf(value), NoOpts)
    IN  IF r.out = "returned" /\ ~r.ret THEN Halted(r.errorf) ELSE r

\* Nil comparing the address of value with nil, as NotNil does
NilOfAddress(v, value) == Equals(v, NilPtrAny, AddrOf(value), NoOpts)

Nil(v, value) == Equals(v, NilIface, value, NoOpts)

ErrorIs(expected, actual) ==
    EqualsFunc(Verdict(errorsIs(actual, expected)))

-----------------------------------------------------------------------------------------------------------------------------------------------------
(* The test run. pc is where the goroutine of the running test is: "ready" *)
(* before a statement of the body, "returned" when an assertion has        *)
(* returned to the body, "exited" when the body is over (it returned, or   *)
(* Fatalf ended the goroutine).                                            *)

Tests == 1..NumTests

NoCall == [op |-> "none"]

Init ==
    /\ variant \in Variants
    /\ cur = 1
    /\ stmt = 0
    /\ pc = "ready"
    /\ status = [t \in Tests |-> IF t = 1 THEN "running" ELSE "pending"]
    /\ records = [t \in Tests |-> 0]
    /\ proc = "running"
    /\ last = NoCall

\* the running test body is at a statement
AtStmt == proc = "running" /\ pc = "ready" /\ stmt < MaxStmts

\* one statement of the running test body: the call op(args) with result r
Call(op, args, r) ==
    /\ last' = [op |-> op, args |-> args, res |-> r]
    /\ records' = [records EXCEPT ![cur] = @ + r.errorf + r.fatalf]
    /\ pc' = IF r.out = "returned" THEN "returned"
             ELSE IF r.out = "halted" THEN "exited" ELSE pc
    /\ status' = IF r.out = "returned" THEN status
                 ELSE [status EXCEPT ![cur] = r.out]
    /\ proc' = IF r.out = "panic" THEN "aborted" ELSE proc
    /\ UNCHANGED <<variant, cur, stmt>>

\* the body takes the returned value and goes on to its next statement
NextStmt ==
    /\ proc = "running"
    /\ pc = "returned"
    /\ pc' = "ready"
    /\ stmt' = stmt + 1
    /\ last' = NoCall
    /\ UNCHANGED <<variant, cur, status, records, proc>>

\* the test body returns
EndTest ==
    /\ proc = "running"
    /\ pc = "ready"
    /\ pc' = "exited"
    /\ status' = [status EXCEPT ![cur] = "done"]
    /\ UNCHANGED <<variant, cur, stmt, records, proc, last>>

\* the runner starts the next sibling test, or ends the run
StartNext ==
    /\ proc = "running"
    /\ pc = "exited"
    /\ last' = NoCall
    /\ IF cur = NumTests
       THEN /\ proc' = "finished"
            /\ UNCHANGED <<cur, stmt, pc, status>>
       ELSE /\ cur' = cur + 1
            /\ stmt' = 0
            /\ pc' = "ready"
            /\ status' = [status EXCEPT ![cur + 1] = "running"]
            /\ proc' = proc
    /\ UNCHANGED <<variant, records>>

CallEquals ==
    /\ AtStmt
    /\ \E p \in Pairs, o \in Options(variant) :
           Call("Equals", [expected |-> p[1], actual |-> p[2], opts |-> o],
                Equals(variant, p[1], p[2], o))

CallNotEquals ==
    /\ AtStmt
    /\ \E p \in Pairs, o \in Options(variant) :
           Call("NotEquals", [expected |-> p[1], actual |-> p[2], opts |-> o],
                NotEquals(variant, p[1], p[2], o))

CallEqualsFunc ==
    /\ AtStmt
    /\ \E e \in Vals, a \in Vals, p \in Predicates :
           Call("EqualsFunc", [expected |-> e, actual |-> a, equals |-> p],
                EqualsFunc(ApplyPred(p, e, a)))

CallIs ==
    /\ AtStmt
    /\ \E T \in Types, value \in Vals :
           Call("Is", [T |-> T, value |-> value], Is(T, value))

CallNoError ==
    /\ AtStmt
    /\ \E err \in ErrIds :
           Call("NoError", [err |-> err], NoError(variant, err))

CallNotNil ==
    /\ AtStmt
    /\ \E value \in Vals :
           Call("NotNil", [value |-> value], NotNil(variant, value))

CallNil ==
    /\ AtStmt
    /\ \E value \in Vals :
           Call("Nil", [value |-> value], Nil(variant, value))

CallErrorIs ==
    /\ AtStmt
    /\ \E e \in ErrIds, a \in ErrIds :
           Call("ErrorIs", [expected |-> e, actual |-> a], ErrorIs(e, a))

Next ==
    \/ CallEquals
    \/ CallNotEquals
    \/ CallEqualsFunc
    \/ CallIs
    \/ CallNoError
    \/ CallNotNil
    \/ CallNil
    \/ CallErrorIs
    \/ NextStmt
    \/ EndTest
    \/ StartNext

Spec == Init /\ [][Next]_vars

-----------------------------------------------------------------------------
(* Properties.                                                             *)

Called(op) == last.op = op

\* the last call returned the boolean b
RetBool(b) == last.res.out = "returned" /\ last.res.ret = b

\* failure records the last call wrote on the sink
Written == last.res.errorf + last.res.fatalf

\* the test goes on after the last call: the body is back in control
GoesOn == pc = "returned" /\ status[cur] = "running" /\ proc = "running"

\* true and nothing recorded / false and exactly one Errorf, no halt
SoftPass == RetBool(TRUE) /\ Written = 0 /\ GoesOn
SoftFail == RetBool(FALSE) /\ last.res.errorf = 1 /\ last.res.fatalf = 0 /\ GoesOn

\* the governing equality of build v in the words of the specification:
\* cmp.Equal with the options, or proto.Equal for messages (a message never
\* equals what is no message) and == otherwise
Equality(v, e, a, o) ==
    IF v = "cmp" THEN CmpEqual(e, a, o)
    ELSE IF IsMsg(e) /\ IsMsg(a) THEN ProtoEqual(e, a)
    ELSE IF IsMsg(e) \/ IsMsg(a) THEN "ne"
    ELSE GoEq(e, a)

LastEquality ==
    Equality(variant, last.args.expected, last.args.actual, last.args.opts)

\* value is nil: the nil interface or a typed nil pointer
IsNilValue(value) ==
    \/ value = NilIface
    \/ value.k \in {"ptr", "msg"} /\ value.addr = 0

\* the dynamic type of value is T (or implements the interface T)
HasType(value, T) ==
    /\ value # NilIface
    /\ T \in {value.k, "any"} \/ (T = "Message" /\ value.k = "msg")

\* the errors of the chain of id: id itself and what it wraps, at any depth
RECURSIVE Chain(_)
Chain(id) == IF id = 0 THEN {} ELSE {id} \cup Chain(Unwrap(id))

SoftOps == {"Equals", "NotEquals", "EqualsFunc", "Nil", "NoError", "ErrorIs"}

\* C1: Equals returns true and records nothing when the two are equal under
\* the governing equality (Equals(t, x, x) among these), and returns false
\* with exactly one Errorf and no halt when they are not equal.
C1_Equals ==
    Called("Equals") =>
        /\ LastEquality = "eq" => SoftPass
        /\ LastEquality = "ne" => SoftFail

\* C2: NotNil halts the test with Fatalf whenever value is nil, a typed nil
\* pointer included, and returns true without halting only when it is not.
C2_NotNilHalts ==
    Called("NotNil") =>
        IF IsNilValue(last.args.value)
        THEN last.res.out = "halted" /\ last.res.fatalf = 1
        ELSE SoftPass

\* C3: NotEquals returns true exactly when Equals, on the same pair and
\* options, returns false, and exactly one of the two calls records a failure.
C3_Complement ==
    Called("NotEquals") =>
        LET eq == Equals(variant, last.args.expected, last.args.actual,
                         last.args.opts)
        IN  /\ RetBool(TRUE) <=> (eq.out = "returned" /\ eq.ret = FALSE)
            /\ last.res.errorf + eq.errorf = 1

\* C4: Is returns value unchanged and records nothing when the dynamic type
\* of value is T; otherwise (a nil value included) it halts the test with
\* Fatalf and returns nothing to the caller.
C4_Is ==
    Called("Is") =>
        IF HasType(last.args.value, last.args.T)
        THEN /\ last.res.out = "returned"
             /\ last.res.ret = last.args.value
             /\ Written = 0
             /\ GoesOn
        ELSE /\ last.res.out = "halted"
             /\ last.res.fatalf = 1 /\ last.res.errorf = 0
             /\ pc = "exited" /\ status[cur] = "halted"

\* Is[T] on the nil interface halted the test
C4_Witness ==
    /\ Called("Is")
    /\ last.args.value = NilIface
    /\ last.args.T = "any"
    /\ status[cur] = "halted"

C6_ErrorIs ==
    Called("ErrorIs") =>
        LET E == last.args.expected
            a == last.args.actual
        IN  /\ (E = a \/ E \in Chain(a)) => SoftPass
            /\ ( /\ E # 0 /\ a # 0 /\ E # a
                 /\ ErrMsg(E) = ErrMsg(a)
                 /\ E \notin Chain(a) /\ a \notin Chain(E) ) => SoftFail

\* ErrorIs(t, E, actual) returned true for the deepest wrapping of E
C6_Witness ==
    /\ Called("ErrorIs")
    /\ last.args.expected = 1
    /\ last.args.actual = 2 + MaxWrap
    /\ SoftPass

\* C7: on two messages of the same content, whatever their bookkeeping,
\* Equals returns true and NotEquals returns false.
C7_MessageEquality ==
    ( /\ last.op \in {"Equals", "NotEquals"}
      /\ IsMsg(last.args.expected) /\ IsMsg(last.args.actual)
      /\ last.args.expected.addr # 0 /\ last.args.actual.addr # 0
      /\ last.args.expected.content = last.args.actual.content )
        => RetBool(last.op = "Equals")

\* C8: a failing hard assertion halts exactly its test, the run going on
\* with the sibling tests; a soft assertion never halts and gives control
\* back to the body, and no call aborts the run.
C8_HardAndSoft ==
    /\ proc # "aborted"
    /\ (Called("Is") /\ ~HasType(last.args.value, last.args.T))
          => (status[cur] = "halted" /\ pc = "exited")
    /\ (Called("NotNil") /\ IsNilValue(last.args.value))
          => (status[cur] = "halted" /\ pc = "exited")
    /\ last.op \in SoftOps => GoesOn

\* C9: every call of a soft assertion ends by returning a boolean.
C9_NoPanic ==
    last.op \in (SoftOps \ {"EqualsFunc"}) =>
        /\ last.res.out = "returned"
        /\ last.res.ret \in BOOLEAN

====
